---- MODULE Spec2Model ----
(***************************************************************************)
(* smtp2graph: the SMTP session state machine (main.go, type Session), the *)
(* envelope/header reconciliation done inside Session.Data, and the relay  *)
(* handler with its cached access token (graphmailhandler.go).             *)
(*                                                                         *)
(* Strings that carry mail addresses are modelled as sequences of tokens:  *)
(* a token is one comma-separated item of the string, either an address in *)
(* one of its three written forms or an item that is no address at all.    *)
(* Joining with ", " is concatenation of token sequences; the empty string *)
(* is the empty sequence.                                                  *)
(***************************************************************************)
EXTENDS Integers, Sequences, FiniteSets, TLC

-----------------------------------------------------------------------------
(* Bounds of the model *)

\* Most recipients a session accepts in the model (the server's MaxRecipients
\* is enforced by the go-smtp library, not by Session.Rcpt).
MaxRcpts == 2

\* Last instant of the model's clock (Unix seconds, counted from 0).
MaxNow == 2

-----------------------------------------------------------------------------
(* Program constants *)

\* graphmailhandler.go:76  now > h.tokenExp-60
RefreshMargin == 60

\* graphmailhandler.go:135  http.StatusAccepted
StatusAccepted == 202

\* Config.SenderEmail / Config.SenderPassword: the one configured identity.
SenderEmail == "sender@example.com"
SenderPassword == "password"

\* Concurrent connections, one Session each (Backend.NewSession).
Sessions == {1, 2}

-----------------------------------------------------------------------------
(* Addresses and the strings that carry them *)

\* mail.Address{Name, Address}
Addr(name, address) == [Name |-> name, Address |-> address]

\* s.sender == nil
NilAddr == Addr("", "")

\* The written forms of one list item.
Bare(a)  == [form |-> "bare",  addr |-> a]     \* a@x
Angle(a) == [form |-> "angle", addr |-> a]     \* <a@x>
Named(a) == [form |-> "named", addr |-> a]     \* "N" <a@x>
Junk     == [form |-> "junk",  addr |-> ""]    \* not an address

\* What the parser makes of one item that is an address.
TokenAddr(t) == Addr(IF t.form = "named" THEN "N" ELSE "", t.addr)

\* mail.Address.String(): "<a@x>" without a name, "\"N\" <a@x>" with one.
AddrString(a) == IF a.Name = "" THEN <<Angle(a.Address)>> ELSE <<Named(a.Address)>>

\* mail.ParseAddress: exactly one item, and it is an address.
ParseAddress(str) ==
    IF Len(str) = 1 /\ str[1].form # "junk"
    THEN [ok |-> TRUE, addr |-> TokenAddr(str[1])]
    ELSE [ok |-> FALSE, addr |-> NilAddr]

\* mail.ParseAddressList: at least one item, and every item is an address.
ParseAddressList(str) ==
    IF Len(str) >= 1 /\ \A i \in 1..Len(str) : str[i].form # "junk"
    THEN [ok |-> TRUE, addrs |-> [i \in 1..Len(str) |-> TokenAddr(str[i])]]
    ELSE [ok |-> FALSE, addrs |-> <<>>]

\* strings.Join(list, ", ")
RECURSIVE Join(_)
Join(list) == IF list = <<>> THEN <<>> ELSE Head(list) \o Join(Tail(list))

-----------------------------------------------------------------------------
(* Errors *)

\* A nil error.
NoErr == [code |-> 0, enh |-> <<>>, msg |-> <<>>]

\* newSMTPError(ctx, code, enhanced, message)
newSMTPError(code, enh, msg) == [code |-> code, enh |-> enh, msg |-> msg]

\* errors.New / fmt.Errorf: an error that is no *smtp.SMTPError.
PlainErr(msg) == [code |-> -1, enh |-> <<>>, msg |-> msg]

\* fmt.Errorf("<prefix>: %w", err)
Wrap(prefix, err) == PlainErr(<<prefix>> \o err.msg)

-----------------------------------------------------------------------------
(* Messages *)

\* mail.Header: each key holds the values of its header lines, in order.
\* An address header's value is a token sequence, any other value a string.
Header(from, to, cc, bcc, subject, ctype) ==
    [From |-> from, To |-> to, Cc |-> cc, Bcc |-> bcc,
     Subject |-> subject, ContentType |-> ctype]

\* mail.Header.Get: the first value of the key, "" when it has none.
Get(vals) == IF vals = <<>> THEN <<>> ELSE vals[1]

\* mail.Header.AddressList: ErrHeaderNotPresent for a missing or empty header,
\* else the parse of the first value.
AddressList(vals) ==
    IF Get(vals) = <<>> THEN [ok |-> FALSE, addrs |-> <<>>]
    ELSE ParseAddressList(Get(vals))

\* The Address fields of a parsed list, as a set.
AddressSet(vals) ==
    LET l == AddressList(vals)
    IN  {l.addrs[i].Address : i \in 1..Len(l.addrs)}

-----------------------------------------------------------------------------
(* State *)

VARIABLES
    auth,        \* Session.auth, per session
    sender,      \* Session.sender, per session (NilAddr for nil)
    recipients,  \* Session.recipients, per session
    token,       \* GraphMailHandler.token
    tokenExp,    \* GraphMailHandler.tokenExp (Unix seconds)
    tokenMutex,  \* GraphMailHandler.tokenMutex: 0 when free, else its holder
    now,         \* time.Now().Unix()
    pc,          \* where each session's goroutine is inside Session.Data
    inData,      \* what the reader of a running Data call yielded, per session
    tnow,        \* getCachedToken's local variable now, per session
    got,         \* the getCachedToken call a running handler.message made
    last         \* the last call that returned: its input, result and effects

vars == <<auth, sender, recipients, token, tokenExp, tokenMutex, now, pc,
          inData, tnow, got, last>>

sessVars == <<auth, sender, recipients>>
cacheVars == <<token, tokenExp, tokenMutex, pc, inData, tnow, got>>

\* The fields of one session, as the call found them.
Pre(s) == [auth |-> auth[s], sender |-> sender[s], recipients |-> recipients[s]]

\* The record of a returned call: the message Data read (parsed), the
\* messages handed to handler.message (relayed), the getCachedToken calls
\* made (get) and the POSTs issued (posts), each in order.
Returned(op, s, arg, err, pre, relayed, get, posts) ==
    [op |-> op, sess |-> s, arg |-> arg, err |-> err, pre |-> pre,
     parsed |-> <<>>, relayed |-> relayed, get |-> get, posts |-> posts,
     herr |-> <<>>, answers |-> <<>>]

-----------------------------------------------------------------------------
(* Session.Auth: the PLAIN server's callback *)

\* authenticate with the two comparisons joined the other way round: one
\* matching field is enough.
authenticate_EitherMatch(identity, username, password) ==
    LET usernameMatch == username = SenderEmail
        passwordMatch == password = SenderPassword
    IN  IF ~usernameMatch /\ ~passwordMatch
        THEN PlainErr(<<"invalid username or password">>)
        ELSE NoErr

\* The callback never looks at identity; it compares username and password
\* with the configuration (subtle.ConstantTimeCompare(x, y) == 1 iff x = y).
authenticate(identity, username, password) ==
    LET usernameMatch == username = SenderEmail
        passwordMatch == password = SenderPassword
    IN  IF ~usernameMatch \/ ~passwordMatch
        THEN PlainErr(<<"invalid username or password">>)
        ELSE NoErr

\* A PLAIN response is identity NUL username NUL password; the sasl server
\* rejects any other number of parts before the callback runs.
PlainResponses ==
    {<<id, u, p>> : id \in {""},
                    u \in {SenderEmail, "other@example.com"},
                    p \in {SenderPassword, "wrong"}}
    \cup {<<SenderEmail, SenderPassword>>}

\* Session.Auth ignores mech and always returns a PLAIN server.
Mechanisms == {"PLAIN", "LOGIN"}

\* server.Next(response) of the server Session.Auth(mech) returned.
AuthNext(response) ==
    IF Len(response) # 3 THEN PlainErr(<<"sasl: invalid response">>)
    ELSE authenticate(response[1], response[2], response[3])

\* Auth whose callback stores the outcome of the comparison in s.auth.
Auth_StoresOutcome(s) ==
    /\ pc[s] = "idle"
    /\ \E mech \in Mechanisms, response \in PlainResponses :
        LET err == AuthNext(response)
        IN  /\ auth' = [auth EXCEPT ![s] = (err = NoErr)]
            /\ last' = Returned("Auth", s, [mech |-> mech, response |-> response],
                                err, Pre(s), <<>>, <<>>, <<>>)
            /\ UNCHANGED <<sender, recipients, now>>
            /\ UNCHANGED cacheVars

Auth(s) ==
    /\ pc[s] = "idle"
    /\ \E mech \in Mechanisms, response \in PlainResponses :
        LET err == AuthNext(response)
        IN  /\ auth' = [auth EXCEPT ![s] = IF err = NoErr THEN TRUE ELSE @]
            /\ last' = Returned("Auth", s, [mech |-> mech, response |-> response],
                                err, Pre(s), <<>>, <<>>, <<>>)
            /\ UNCHANGED <<sender, recipients, now>>
            /\ UNCHANGED cacheVars

-----------------------------------------------------------------------------
(* Session.Mail, Session.Rcpt, Session.Reset, Session.Logout *)

\* The server makes one call at a time on a connection's Session: each of
\* these calls starts only when the connection's goroutine is not inside
\* Data (pc[s] = "idle").

\* The strings MAIL FROM and RCPT TO are called with.
MailArgs == {<<Bare(SenderEmail)>>, <<Bare("a@example.com")>>, <<Junk>>}
RcptArgs == {<<Bare("a@example.com")>>, <<Named("b@example.com")>>, <<Junk>>, <<>>}

\* MailErr without the check of s.auth.
MailErr_NoAuthCheck(a, snd, rcpts, from) ==
    IF snd # NilAddr
    THEN newSMTPError(503, <<5, 5, 1>>, <<"sender already specified">>)
    ELSE IF Len(rcpts) > 0
    THEN newSMTPError(503, <<5, 5, 1>>,
                      <<"bad sequence of commands: MAIL FROM after RCPT TO">>)
    ELSE IF ~ParseAddress(from).ok
    THEN newSMTPError(550, <<5, 1, 7>>, <<"invalid sender address">>)
    ELSE NoErr

\* MailErr without the check of s.sender.
MailErr_NoSenderCheck(a, snd, rcpts, from) ==
    IF ~a
    THEN newSMTPError(530, <<5, 7, 0>>, <<"authentication required">>)
    ELSE IF Len(rcpts) > 0
    THEN newSMTPError(503, <<5, 5, 1>>,
                      <<"bad sequence of commands: MAIL FROM after RCPT TO">>)
    ELSE IF ~ParseAddress(from).ok
    THEN newSMTPError(550, <<5, 1, 7>>, <<"invalid sender address">>)
    ELSE NoErr

\* The error Session.Mail returns, NoErr when it stores the sender.
MailErr(a, snd, rcpts, from) ==
    IF ~a
    THEN newSMTPError(530, <<5, 7, 0>>, <<"authentication required">>)
    ELSE IF snd # NilAddr
    THEN newSMTPError(503, <<5, 5, 1>>, <<"sender already specified">>)
    ELSE IF Len(rcpts) > 0
    THEN newSMTPError(503, <<5, 5, 1>>,
                      <<"bad sequence of commands: MAIL FROM after RCPT TO">>)
    ELSE IF ~ParseAddress(from).ok
    THEN newSMTPError(550, <<5, 1, 7>>, <<"invalid sender address">>)
    ELSE NoErr

Mail(s) ==
    /\ pc[s] = "idle"
    /\ \E from \in MailArgs :
        LET err == MailErr(auth[s], sender[s], recipients[s], from)
        IN  /\ sender' = [sender EXCEPT
                            ![s] = IF err = NoErr THEN ParseAddress(from).addr ELSE @]
            /\ last' = Returned("Mail", s, from, err, Pre(s), <<>>, <<>>, <<>>)
            /\ UNCHANGED <<auth, recipients, now>>
            /\ UNCHANGED cacheVars

\* RcptErr without the check of s.sender.
RcptErr_NoSenderCheck(a, snd, to) ==
    IF ~a
    THEN newSMTPError(530, <<5, 7, 0>>, <<"authentication required">>)
    ELSE IF ~ParseAddress(to).ok
    THEN newSMTPError(550, <<5, 1, 3>>, <<"invalid recipient address">>)
    ELSE NoErr

\* The error Session.Rcpt returns, NoErr when it appends the recipient.
RcptErr(a, snd, to) ==
    IF ~a
    THEN newSMTPError(530, <<5, 7, 0>>, <<"authentication required">>)
    ELSE IF snd = NilAddr
    THEN newSMTPError(503, <<5, 5, 1>>,
                      <<"bad sequence of commands: RCPT TO before MAIL FROM">>)
    ELSE IF ~ParseAddress(to).ok
    THEN newSMTPError(550, <<5, 1, 3>>, <<"invalid recipient address">>)
    ELSE NoErr

\* Rcpt that does not append an address the list already holds.
Rcpt_NoDuplicates(s) ==
    /\ pc[s] = "idle"
    /\ Len(recipients[s]) < MaxRcpts
    /\ \E to \in RcptArgs :
        LET err == RcptErr(auth[s], sender[s], to)
            held == {recipients[s][i] : i \in 1..Len(recipients[s])}
        IN  /\ recipients' = [recipients EXCEPT
                ![s] = IF err = NoErr /\ ParseAddress(to).addr \notin held
                       THEN Append(@, ParseAddress(to).addr) ELSE @]
            /\ last' = Returned("Rcpt", s, to, err, Pre(s), <<>>, <<>>, <<>>)
            /\ UNCHANGED <<auth, sender, now>>
            /\ UNCHANGED cacheVars

Rcpt(s) ==
    /\ pc[s] = "idle"
    /\ Len(recipients[s]) < MaxRcpts
    /\ \E to \in RcptArgs :
        LET err == RcptErr(auth[s], sender[s], to)
        IN  /\ recipients' = [recipients EXCEPT
                ![s] = IF err = NoErr THEN Append(@, ParseAddress(to).addr) ELSE @]
            /\ last' = Returned("Rcpt", s, to, err, Pre(s), <<>>, <<>>, <<>>)
            /\ UNCHANGED <<auth, sender, now>>
            /\ UNCHANGED cacheVars

\* Reset that clears the envelope of every session.
Reset_EverySession(s) ==
    /\ pc[s] = "idle"
    /\ sender' = [t \in Sessions |-> NilAddr]
    /\ recipients' = [t \in Sessions |-> <<>>]
    /\ last' = Returned("Reset", s, <<>>, NoErr, Pre(s), <<>>, <<>>, <<>>)
    /\ UNCHANGED <<auth, now>>
    /\ UNCHANGED cacheVars

\* Reset that clears the sender only.
Reset_SenderOnly(s) ==
    /\ pc[s] = "idle"
    /\ sender' = [sender EXCEPT ![s] = NilAddr]
    /\ last' = Returned("Reset", s, <<>>, NoErr, Pre(s), <<>>, <<>>, <<>>)
    /\ UNCHANGED <<auth, recipients, now>>
    /\ UNCHANGED cacheVars

Reset(s) ==
    /\ pc[s] = "idle"
    /\ sender' = [sender EXCEPT ![s] = NilAddr]
    /\ recipients' = [recipients EXCEPT ![s] = <<>>]
    /\ last' = Returned("Reset", s, <<>>, NoErr, Pre(s), <<>>, <<>>, <<>>)
    /\ UNCHANGED <<auth, now>>
    /\ UNCHANGED cacheVars

Logout(s) ==
    /\ pc[s] = "idle"
    /\ last' = Returned("Logout", s, <<>>, NoErr, Pre(s), <<>>, <<>>, <<>>)
    /\ UNCHANGED <<auth, sender, recipients, now>>
    /\ UNCHANGED cacheVars

-----------------------------------------------------------------------------
(* Session.Data: parsing, fallback and reconciliation *)

Message(header, body) == [header |-> header, body |-> body]

NoMessage == Message(Header(<<>>, <<>>, <<>>, <<>>, <<>>, <<>>), "")

\* What the reader given to Data yields: a read error, bytes that parse as a
\* header block plus body (msg is that parse), or bytes that do not.
ReadErr == [kind |-> "readerr", msg |-> NoMessage, bytes |-> ""]
Mime(msg) == [kind |-> "mime", msg |-> msg, bytes |-> "mime"]
Raw(bytes) == [kind |-> "raw", msg |-> NoMessage, bytes |-> bytes]

\* mail.ReadMessage(bytes.NewReader(b))
ReadMessage(b) == [ok |-> b.kind = "mime", msg |-> b.msg]

\* The minimal message Data composes around bytes that did not parse, as
\* mail.ReadMessage reads it back.
Fallback_FirstRecipientOnly(b, snd, rcpts) ==
    LET from == AddrString(snd)
        to == IF rcpts = <<>> THEN <<>> ELSE AddrString(rcpts[1])
    IN  Message(Header(<<from>>, <<to>>, <<>>, <<>>, <<"(no subject)">>,
                       <<"text/plain; charset=utf-8">>),
                b.bytes)

Fallback(b, snd, rcpts) ==
    LET from == AddrString(snd)
        toList == [i \in 1..Len(rcpts) |-> AddrString(rcpts[i])]
        to == Join(toList)
    IN  Message(Header(<<from>>, <<to>>, <<>>, <<>>, <<"(no subject)">>,
                       <<"text/plain; charset=utf-8">>),
                b.bytes)

\* recipientSet: the addresses found in To, Cc and Bcc.
RecipientSet_ToCcOnly(h) == AddressSet(h.To) \cup AddressSet(h.Cc)

RecipientSet(h) == AddressSet(h.To) \cup AddressSet(h.Cc) \cup AddressSet(h.Bcc)

\* missingRecipients: the written form of each envelope recipient whose
\* address is not in recipientSet, in envelope order.
MissingRecipients(h, rcpts) ==
    LET miss == SelectSeq(rcpts, LAMBDA r : r.Address \notin RecipientSet(h))
    IN  [i \in 1..Len(miss) |-> AddrString(miss[i])]

\* The Bcc patch.
PatchBcc(h, rcpts) ==
    LET missingRecipients == MissingRecipients(h, rcpts)
        oldBcc == Get(h.Bcc)
        missingStr == Join(missingRecipients)
    IN  IF Len(missingRecipients) > 0
        THEN IF oldBcc # <<>>
             THEN [h EXCEPT !.Bcc = <<oldBcc \o missingStr>>]
             ELSE [h EXCEPT !.Bcc = <<missingStr>>]
        ELSE h

\* found: From parses and lists the sender's address.
SenderFound(h, snd) ==
    LET l == AddressList(h.From)
    IN  l.ok /\ \E i \in 1..Len(l.addrs) : l.addrs[i].Address = snd.Address

\* PatchFrom that rewrites From only when it is missing or does not parse.
PatchFrom_OnlyUnparsed(h, snd) ==
    IF snd # NilAddr /\ ~AddressList(h.From).ok
    THEN [h EXCEPT !.From = <<AddrString(snd)>>]
    ELSE h

\* The From patch.
PatchFrom(h, snd) ==
    IF snd # NilAddr /\ ~SenderFound(h, snd)
    THEN [h EXCEPT !.From = <<AddrString(snd)>>]
    ELSE h

\* The message Data hands to handler.message.
Reconcile(msg, snd, rcpts) ==
    [msg EXCEPT !.header = PatchFrom(PatchBcc(msg.header, rcpts), snd)]

\* DataPreErr without the check of len(s.recipients).
DataPreErr_NoRcptCheck(a, snd, rcpts) ==
    IF ~a
    THEN newSMTPError(530, <<5, 7, 0>>, <<"authentication required">>)
    ELSE IF snd = NilAddr
    THEN newSMTPError(503, <<5, 5, 1>>, <<"sender not specified">>)
    ELSE NoErr

\* The error of Data's three precondition checks, NoErr when all pass.
DataPreErr(a, snd, rcpts) ==
    IF ~a
    THEN newSMTPError(530, <<5, 7, 0>>, <<"authentication required">>)
    ELSE IF snd = NilAddr
    THEN newSMTPError(503, <<5, 5, 1>>, <<"sender not specified">>)
    ELSE IF Len(rcpts) = 0
    THEN newSMTPError(503, <<5, 5, 1>>, <<"no recipients specified">>)
    ELSE NoErr

-----------------------------------------------------------------------------
(* GraphMailHandler: getCachedToken, encodeMailMessage, sendRawMimeMail *)

\* NeedsRefresh with the comparison turned round: a token is refreshed
\* while it is still good and kept once it is stale.
NeedsRefresh_Inverted(tok, exp, t) == tok = "" \/ t < exp - RefreshMargin

\* NeedsRefresh with >= for >: refreshes already at expiry minus 60s.
NeedsRefresh_AtMargin(tok, exp, t) == tok = "" \/ t >= exp - RefreshMargin

\* Refresh if token is missing or expires in <60s.
NeedsRefresh(tok, exp, t) == tok = "" \/ t > exp - RefreshMargin

\* What h.cred.GetToken answers at time t: an error, or a token with its
\* ExpiresOn.
Tokens == {"tokenA", "tokenB"}
ExpDeltas == {0, 1}
SrcFail == [ok |-> FALSE, token |-> "", exp |-> 0]
SrcOutcomes(t) ==
    {SrcFail} \cup {[ok |-> TRUE, token |-> tk, exp |-> t + RefreshMargin + d] :
                        tk \in Tokens, d \in ExpDeltas}

\* Refreshed with the cache written before the error is looked at: a failed
\* call stores the zero token and expiry.
Refreshed_WriteOnError(tok, exp, src) == [token |-> src.token, tokenExp |-> src.exp]

\* The cache after the token source answered src.
Refreshed(tok, exp, src) ==
    IF src.ok THEN [token |-> src.token, tokenExp |-> src.exp]
    ELSE [token |-> tok, tokenExp |-> exp]

\* What getCachedToken returns after the token source answered src.
RefreshReturn(src) ==
    IF src.ok THEN [ret |-> src.token, err |-> NoErr]
    ELSE [ret |-> "", err |-> Wrap("GetToken", PlainErr(<<"token source failed">>))]

\* The rest of a getCachedToken call by session s whose test at time t sent
\* it to the token source, which answers src while the cache holds
\* (tok, exp).
SourceCall(s, tok, exp, t, src) ==
    [sess |-> s, token0 |-> tok, exp0 |-> exp, t |-> t, called |-> TRUE,
     src |-> src, ret |-> RefreshReturn(src).ret, err |-> RefreshReturn(src).err,
     token |-> Refreshed(tok, exp, src).token,
     tokenExp |-> Refreshed(tok, exp, src).tokenExp]

\* One whole getCachedToken call by session s, made with the cache holding
\* (tok, exp) at time t, the token source answering src if it is asked.
GetCall(s, tok, exp, t, src) ==
    IF NeedsRefresh(tok, exp, t)
    THEN SourceCall(s, tok, exp, t, src)
    ELSE [sess |-> s, token0 |-> tok, exp0 |-> exp, t |-> t, called |-> FALSE,
          src |-> SrcFail, ret |-> tok, err |-> NoErr,
          token |-> tok, tokenExp |-> exp]

\* encodeMailMessage: one "Key: Value" line per header value, the lines of
\* one key in order, the keys in map order (any order), then the body.
HeaderKeys == {"From", "To", "Cc", "Bcc", "Subject", "ContentType"}
encodeMailMessage(msg) ==
    [lines |-> UNION {{<<k, i, msg.header[k][i]>> : i \in 1..Len(msg.header[k])} :
                          k \in HeaderKeys},
     body |-> msg.body]

\* What http.DefaultClient.Do answers: a transport error or a response.
HttpFail == [kind |-> "transport", status |-> 0, body |-> ""]
HttpStatus(code, body) == [kind |-> "status", status |-> code, body |-> body]
HttpOutcomes == {HttpFail, HttpStatus(StatusAccepted, ""), HttpStatus(200, "ok"),
                 HttpStatus(500, "internal error")}

\* The request sendRawMimeMail posts.
PostRequest(accessToken, userID, mimeMessage) ==
    [url |-> <<"https://graph.microsoft.com/v1.0/users/", userID, "/sendMail">>,
     authorization |-> <<"Bearer ", accessToken>>,
     contentType |-> "text/plain",
     body |-> [base64 |-> mimeMessage]]

\* The error sendRawMimeMail returns when the client answers http.
sendRawMimeMail_Any2xx(http) ==
    IF http.kind = "transport"
    THEN Wrap("http.Do", PlainErr(<<"transport error">>))
    ELSE IF http.status < 200 \/ http.status > 299
    THEN PlainErr(<<"sendMail failed", http.status, http.body>>)
    ELSE NoErr

sendRawMimeMail(http) ==
    IF http.kind = "transport"
    THEN Wrap("http.Do", PlainErr(<<"transport error">>))
    ELSE IF http.status # StatusAccepted
    THEN PlainErr(<<"sendMail failed", http.status, http.body>>)
    ELSE NoErr

-----------------------------------------------------------------------------
(* Session.Data *)

\* What Data returns once handler.message has returned herr: a failed relay
\* becomes a 554 carrying the handler's error text, a successful one nil.
RelayErr_Swallowed(herr) ==
    NoErr

RelayErr(herr) ==
    IF herr # NoErr THEN newSMTPError(554, <<5, 3, 0>>, herr.msg) ELSE NoErr

\* The envelope Data leaves in the session when it returns err: no statement
\* of Data assigns s.sender or s.recipients, on any path.
DataEnvelope_ClearedOnSuccess(err, snd, rcpts) ==
    IF err = NoErr
    THEN [sender |-> NilAddr, recipients |-> <<>>]
    ELSE [sender |-> snd, recipients |-> rcpts]

DataEnvelope_ClearedOnFailure(err, snd, rcpts) ==
    IF err # NoErr
    THEN [sender |-> NilAddr, recipients |-> <<>>]
    ELSE [sender |-> snd, recipients |-> rcpts]

DataEnvelope(err, snd, rcpts) ==
    [sender |-> snd, recipients |-> rcpts]

-----------------------------------------------------------------------------
(* The clock *)

Tick ==
    /\ now < MaxNow
    /\ now' = now + 1
    /\ UNCHANGED <<auth, sender, recipients, last>>
    /\ UNCHANGED cacheVars

-----------------------------------------------------------------------------
(* Session.Data, followed from step to step *)

\* The reader each session gives to Data in the token runs and the
\* connection runs.
StepArg == Raw("hello")

\* The message Data has in hand once it has read b: the parsed one, or the
\* fallback built from the envelope when the bytes do not parse.
ReadOrFallback(b, snd, rcpts) ==
    IF ReadMessage(b).ok THEN ReadMessage(b).msg ELSE Fallback(b, snd, rcpts)

\* The message the running Data call of session s read, and the one it hands
\* to handler.message.
DataMsg(s) == ReadOrFallback(inData[s][1], sender[s], recipients[s])
DataOut(s) == Reconcile(DataMsg(s), sender[s], recipients[s])

\* The record of a Data call of session s that returns err after it handed
\* its message to the handler, which returned herr.
DataReturned(s, err, herr, get, posts, answers) ==
    [Returned("Data", s, inData[s][1], err, Pre(s), <<DataOut(s)>>, get, posts)
        EXCEPT !.parsed = <<DataMsg(s)>>, !.herr = <<herr>>, !.answers = answers]

\* Data returns at one of its three checks, with nothing read. The call
\* stops nowhere and touches nothing outside the session.
DataRejected(s, readers) ==
    /\ pc[s] = "idle"
    /\ \E b \in readers :
        LET err == DataPreErr(auth[s], sender[s], recipients[s])
            env == DataEnvelope(err, sender[s], recipients[s])
        IN  /\ err # NoErr
            /\ sender' = [sender EXCEPT ![s] = env.sender]
            /\ recipients' = [recipients EXCEPT ![s] = env.recipients]
            /\ last' = Returned("Data", s, b, err, Pre(s), <<>>, <<>>, <<>>)
    /\ UNCHANGED <<auth, now>>
    /\ UNCHANGED cacheVars

\* Data passes its three checks and calls io.ReadAll(r): the goroutine waits
\* for the body.
DataChecked(s) ==
    /\ pc[s] = "idle"
    /\ DataPreErr(auth[s], sender[s], recipients[s]) = NoErr
    /\ pc' = [pc EXCEPT ![s] = "read"]
    /\ got' = [got EXCEPT ![s] = <<>>]
    /\ UNCHANGED <<auth, sender, recipients, token, tokenExp, tokenMutex, now,
                   inData, tnow, last>>

\* io.ReadAll returns the reader's error and Data returns it.
ReadFailed(s, readers) ==
    /\ pc[s] = "read"
    /\ \E b \in readers :
        LET err == PlainErr(<<"read error">>)
            env == DataEnvelope(err, sender[s], recipients[s])
        IN  /\ b.kind = "readerr"
            /\ sender' = [sender EXCEPT ![s] = env.sender]
            /\ recipients' = [recipients EXCEPT ![s] = env.recipients]
            /\ last' = Returned("Data", s, b, err, Pre(s), <<>>, <<>>, <<>>)
    /\ pc' = [pc EXCEPT ![s] = "idle"]
    /\ UNCHANGED <<auth, token, tokenExp, tokenMutex, now, inData, tnow, got>>

\* io.ReadAll returns the bytes: Data parses them or builds the fallback,
\* reconciles and calls handler.message, which encodes the message and calls
\* getCachedToken: the goroutine is at h.tokenMutex.Lock().
MessageCall(s, readers) ==
    /\ pc[s] = "read"
    /\ \E b \in readers :
        /\ b.kind # "readerr"
        /\ inData' = [inData EXCEPT ![s] = <<b>>]
    /\ pc' = [pc EXCEPT ![s] = "lock"]
    /\ UNCHANGED <<auth, sender, recipients, token, tokenExp, tokenMutex, now,
                   tnow, got, last>>

\* h.tokenMutex.Lock() returns.
Lock_NoMutex(s) ==
    /\ pc[s] = "lock"
    /\ tokenMutex' = s
    /\ pc' = [pc EXCEPT ![s] = "locked"]
    /\ UNCHANGED <<auth, sender, recipients, token, tokenExp, now, inData, tnow,
                   got, last>>

Lock(s) ==
    /\ pc[s] = "lock"
    /\ tokenMutex = 0
    /\ tokenMutex' = s
    /\ pc' = [pc EXCEPT ![s] = "locked"]
    /\ UNCHANGED <<auth, sender, recipients, token, tokenExp, now, inData, tnow,
                   got, last>>

\* now := time.Now().Unix() and the test of the cache: either the call to
\* h.cred.GetToken starts, or the cached token is returned and the deferred
\* Unlock runs.
ReadCache_UnlockBeforeSource(s) ==
    /\ pc[s] = "locked"
    /\ tnow' = [tnow EXCEPT ![s] = now]
    /\ IF NeedsRefresh(token, tokenExp, now)
       THEN /\ pc' = [pc EXCEPT ![s] = "source"]
            /\ tokenMutex' = 0
            /\ UNCHANGED <<got, last>>
       ELSE LET g == GetCall(s, token, tokenExp, now, SrcFail)
            IN  /\ pc' = [pc EXCEPT ![s] = "send"]
                /\ tokenMutex' = 0
                /\ got' = [got EXCEPT ![s] = <<g>>]
                /\ last' = Returned("getCachedToken", s, <<>>, g.err, Pre(s),
                                    <<>>, <<g>>, <<>>)
    /\ UNCHANGED <<auth, sender, recipients, token, tokenExp, now, inData>>

ReadCache(s) ==
    /\ pc[s] = "locked"
    /\ tnow' = [tnow EXCEPT ![s] = now]
    /\ IF NeedsRefresh(token, tokenExp, now)
       THEN /\ pc' = [pc EXCEPT ![s] = "source"]
            /\ UNCHANGED <<tokenMutex, got, last>>
       ELSE LET g == GetCall(s, token, tokenExp, now, SrcFail)
            IN  /\ pc' = [pc EXCEPT ![s] = "send"]
                /\ tokenMutex' = 0
                /\ got' = [got EXCEPT ![s] = <<g>>]
                /\ last' = Returned("getCachedToken", s, <<>>, g.err, Pre(s),
                                    <<>>, <<g>>, <<>>)
    /\ UNCHANGED <<auth, sender, recipients, token, tokenExp, now, inData>>

\* h.cred.GetToken returns one of the answers srcs: the cache is written on
\* success and the deferred Unlock runs; on failure message returns the
\* error and Data returns it as a 554.
GetTokenReturn_NoUnlockOnError(s, srcs) ==
    /\ pc[s] = "source"
    /\ \E src \in srcs :
        LET g == SourceCall(s, token, tokenExp, tnow[s], src)
            herr == Wrap("getCachedToken", g.err)
            env == DataEnvelope(RelayErr(herr), sender[s], recipients[s])
        IN  /\ token' = g.token
            /\ tokenExp' = g.tokenExp
            /\ tokenMutex' = IF g.err = NoErr THEN 0 ELSE tokenMutex
            /\ got' = [got EXCEPT ![s] = <<g>>]
            /\ IF g.err = NoErr
               THEN /\ pc' = [pc EXCEPT ![s] = "send"]
                    /\ last' = Returned("getCachedToken", s, <<>>, g.err, Pre(s),
                                        <<>>, <<g>>, <<>>)
                    /\ UNCHANGED <<sender, recipients, inData>>
               ELSE /\ pc' = [pc EXCEPT ![s] = "idle"]
                    /\ inData' = [inData EXCEPT ![s] = <<>>]
                    /\ sender' = [sender EXCEPT ![s] = env.sender]
                    /\ recipients' = [recipients EXCEPT ![s] = env.recipients]
                    /\ last' = DataReturned(s, RelayErr(herr), herr, <<g>>, <<>>,
                                            <<>>)
    /\ UNCHANGED <<auth, now, tnow>>

\* GetTokenReturn whose message goes on to the POST when getCachedToken
\* failed, with the empty token it was given.
GetTokenReturn_PostOnError(s, srcs) ==
    /\ pc[s] = "source"
    /\ \E src \in srcs :
        LET g == SourceCall(s, token, tokenExp, tnow[s], src)
        IN  /\ token' = g.token
            /\ tokenExp' = g.tokenExp
            /\ tokenMutex' = 0
            /\ got' = [got EXCEPT ![s] = <<g>>]
            /\ pc' = [pc EXCEPT ![s] = "send"]
            /\ last' = Returned("getCachedToken", s, <<>>, g.err, Pre(s),
                                <<>>, <<g>>, <<>>)
            /\ UNCHANGED <<sender, recipients, inData>>
    /\ UNCHANGED <<auth, now, tnow>>

GetTokenReturn(s, srcs) ==
    /\ pc[s] = "source"
    /\ \E src \in srcs :
        LET g == SourceCall(s, token, tokenExp, tnow[s], src)
            herr == Wrap("getCachedToken", g.err)
            env == DataEnvelope(RelayErr(herr), sender[s], recipients[s])
        IN  /\ token' = g.token
            /\ tokenExp' = g.tokenExp
            /\ tokenMutex' = 0
            /\ got' = [got EXCEPT ![s] = <<g>>]
            /\ IF g.err = NoErr
               THEN /\ pc' = [pc EXCEPT ![s] = "send"]
                    /\ last' = Returned("getCachedToken", s, <<>>, g.err, Pre(s),
                                        <<>>, <<g>>, <<>>)
                    /\ UNCHANGED <<sender, recipients, inData>>
               ELSE /\ pc' = [pc EXCEPT ![s] = "idle"]
                    /\ inData' = [inData EXCEPT ![s] = <<>>]
                    /\ sender' = [sender EXCEPT ![s] = env.sender]
                    /\ recipients' = [recipients EXCEPT ![s] = env.recipients]
                    /\ last' = DataReturned(s, RelayErr(herr), herr, <<g>>, <<>>,
                                            <<>>)
    /\ UNCHANGED <<auth, now, tnow>>

\* sendRawMimeMail posts the message with the token getCachedToken returned
\* and the client answers one of https; message and Data return.
SendMail(s, https) ==
    /\ pc[s] = "send"
    /\ \E http \in https :
        LET sent == sendRawMimeMail(http)
            herr == IF sent # NoErr THEN Wrap("sendRawMimeMail", sent) ELSE NoErr
            env == DataEnvelope(RelayErr(herr), sender[s], recipients[s])
        IN  /\ sender' = [sender EXCEPT ![s] = env.sender]
            /\ recipients' = [recipients EXCEPT ![s] = env.recipients]
            /\ last' = DataReturned(s, RelayErr(herr), herr, got[s],
                                    <<PostRequest(got[s][1].ret, SenderEmail,
                                                  encodeMailMessage(DataOut(s)))>>,
                                    <<http>>)
    /\ pc' = [pc EXCEPT ![s] = "idle"]
    /\ inData' = [inData EXCEPT ![s] = <<>>]
    /\ UNCHANGED <<auth, token, tokenExp, tokenMutex, now, tnow, got>>

-----------------------------------------------------------------------------
(* Inputs of Data *)

A == "a@example.com"
B == "b@example.com"
O == "other@example.com"

\* The header lines a submitted message may carry, per key.
FromLines == {<<>>, << <<Bare(SenderEmail)>> >>, << <<Named(SenderEmail)>> >>,
              << <<Bare(O)>> >>, << <<Junk>> >>, << <<Bare(O), Bare(SenderEmail)>> >>,
              << <<Bare(O)>>, <<Bare(SenderEmail)>> >>,
              << <<Bare(SenderEmail)>>, <<Bare(O)>> >>}
ToLines == {<<>>, << <<Bare(A)>> >>, << <<Bare(A), Named(B)>> >>,
            << <<Junk, Bare(A)>> >>, << <<Bare(A)>>, <<Bare(B)>> >>}
CcLines == {<<>>, << <<Bare(B)>> >>}
BccLines == {<<>>, << <<Bare(B)>> >>, << <<Junk>> >>, << <<Bare(O)>>, <<Bare(B)>> >>,
             << <<>>, <<Bare(B)>> >>}

\* Every message over those lines.
AllMessages ==
    {Message(Header(f, t, c, b, <<"Test">>, <<>>), "Hello World") :
        f \in FromLines, t \in ToLines, c \in CcLines, b \in BccLines}

\* The readers of the session runs: a failing reader, bytes that do not
\* parse, and four messages.
DataArgs ==
    {ReadErr, Raw("hello"),
     Mime(Message(Header(<< <<Bare(SenderEmail)>> >>, << <<Bare(A), Bare(B)>> >>,
                         <<>>, <<>>, <<"Test">>, <<>>), "Hello World")),
     Mime(Message(Header(<< <<Bare(O)>> >>, << <<Bare(A)>> >>,
                         <<>>, <<>>, <<"Test">>, <<>>), "Hello World")),
     Mime(Message(Header(<<>>, <<>>, <<>>, << <<Bare(O)>> >>, <<"Test">>, <<>>),
                  "Hello World")),
     Mime(Message(Header(<< <<Junk>> >>, << <<Bare(A)>>, <<Bare(B)>> >>,
                         << <<Bare(B)>> >>, <<>>, <<"Test">>, <<>>), "Hello World"))}

\* The readers of the reconciliation runs: bytes that do not parse and every
\* message.
AllDataArgs == {Raw("hello")} \cup {Mime(m) : m \in AllMessages}

-----------------------------------------------------------------------------
(* Specifications *)

\* Backend.NewSession for every connection and NewGraphMailHandler.
Fresh ==
    /\ token = ""
    /\ tokenExp = 0
    /\ tokenMutex = 0
    /\ now = 0
    /\ pc = [s \in Sessions |-> "idle"]
    /\ inData = [s \in Sessions |-> <<>>]
    /\ tnow = [s \in Sessions |-> 0]
    /\ got = [s \in Sessions |-> <<>>]
    /\ last = Returned("NewSession", 0, <<>>, NoErr,
                       [auth |-> FALSE, sender |-> NilAddr, recipients |-> <<>>],
                       <<>>, <<>>, <<>>)

Init ==
    /\ auth = [s \in Sessions |-> FALSE]
    /\ sender = [s \in Sessions |-> NilAddr]
    /\ recipients = [s \in Sessions |-> <<>>]
    /\ Fresh

\* What the token source and the HTTP client answer in the session runs and
\* the reconciliation runs.
SessionSrcs(t) == {SrcFail, [ok |-> TRUE, token |-> "tokenA",
                             exp |-> t + RefreshMargin + 1]}
SessionHttps == {HttpFail, HttpStatus(StatusAccepted, ""),
                 HttpStatus(500, "internal error")}

\* Session runs: the calls the server makes on one connection's Session, in
\* any order and with any argument, a Data call followed from step to step
\* while the clock runs.
Next ==
    \/ Auth(1)
    \/ Mail(1)
    \/ Rcpt(1)
    \/ DataRejected(1, DataArgs)
    \/ DataChecked(1)
    \/ ReadFailed(1, DataArgs)
    \/ MessageCall(1, DataArgs)
    \/ Lock(1)
    \/ ReadCache(1)
    \/ GetTokenReturn(1, SessionSrcs(now))
    \/ SendMail(1, SessionHttps)
    \/ Reset(1)
    \/ Logout(1)
    \/ Tick

Spec == Init /\ [][Next]_vars

\* The envelopes a session can hold when Data passes its checks.
Senders == {ParseAddress(from).addr : from \in {x \in MailArgs : ParseAddress(x).ok}}
Rcpts == {ParseAddress(to).addr : to \in {x \in RcptArgs : ParseAddress(x).ok}}
RECURSIVE SeqsUpTo(_, _)
SeqsUpTo(S, n) ==
    IF n = 0 THEN {<<>>}
    ELSE SeqsUpTo(S, n - 1) \cup
         {Append(q, x) : q \in {r \in SeqsUpTo(S, n - 1) : Len(r) = n - 1}, x \in S}

\* Reconciliation runs: session 1 is authenticated and holds any envelope
\* (reached by Auth, Mail and Rcpt calls), and Data is called once, with any
\* message, and followed from step to step.
InitData ==
    /\ auth = [s \in Sessions |-> s = 1]
    /\ \E snd \in Senders :
        sender = [s \in Sessions |-> IF s = 1 THEN snd ELSE NilAddr]
    /\ \E rs \in SeqsUpTo(Rcpts, MaxRcpts) \ {<<>>} :
        recipients = [s \in Sessions |-> IF s = 1 THEN rs ELSE <<>>]
    /\ Fresh

NextData ==
    \/ last.op = "NewSession" /\ DataChecked(1)
    \/ MessageCall(1, AllDataArgs)
    \/ Lock(1)
    \/ ReadCache(1)
    \/ GetTokenReturn(1, SessionSrcs(now))
    \/ SendMail(1, SessionHttps)

SpecData == InitData /\ [][NextData]_vars

\* Token runs: every session is authenticated and holds an envelope, and the
\* sessions run Data at the same time, followed step by step.
InitToken ==
    /\ auth = [s \in Sessions |-> TRUE]
    /\ sender = [s \in Sessions |-> Addr("", SenderEmail)]
    /\ recipients = [s \in Sessions |-> <<Addr("", A)>>]
    /\ Fresh

NextToken ==
    \/ \E s \in Sessions : DataChecked(s)
    \/ \E s \in Sessions : MessageCall(s, {StepArg})
    \/ \E s \in Sessions : Lock(s)
    \/ \E s \in Sessions : ReadCache(s)
    \/ \E s \in Sessions : GetTokenReturn(s, SrcOutcomes(now))
    \/ \E s \in Sessions : SendMail(s, HttpOutcomes)
    \/ Tick

SpecToken == InitToken /\ [][NextToken]_vars

\* Connection runs: the server holds one Session per connection, all built
\* by NewSession around the same handler. Each connection is served by its
\* own goroutine, which makes one call at a time on its Session; a Data call
\* that reaches the handler is followed step by step, so that the calls of
\* the other connection happen between its steps. The two clients name
\* different senders, so that a sender of one session in the other shows.
MultiResponses == {<<"", SenderEmail, SenderPassword>>, <<"", SenderEmail, "wrong">>}
MultiMailArgs(s) == IF s = 1 THEN {<<Bare(SenderEmail)>>} ELSE {<<Bare(A)>>, <<Junk>>}
MultiHttps == {HttpStatus(StatusAccepted, ""), HttpStatus(500, "internal error")}

NextMulti ==
    \/ \E s \in Sessions :
          /\ Auth(s)
          /\ last'.arg.mech = "PLAIN"
          /\ last'.arg.response \in MultiResponses
    \/ \E s \in Sessions : Mail(s) /\ last'.arg \in MultiMailArgs(s)
    \/ \E s \in Sessions : Rcpt(s)
    \/ \E s \in Sessions : Reset(s)
    \/ \E s \in Sessions : Logout(s)
    \/ \E s \in Sessions : DataRejected(s, {StepArg})
    \/ \E s \in Sessions : DataChecked(s)
    \/ \E s \in Sessions : MessageCall(s, {StepArg})
    \/ \E s \in Sessions : Lock(s)
    \/ \E s \in Sessions : ReadCache(s)
    \/ \E s \in Sessions : GetTokenReturn(s, SessionSrcs(now))
    \/ \E s \in Sessions : SendMail(s, MultiHttps)

SpecMulti == Init /\ [][NextMulti]_vars

-----------------------------------------------------------------------------
(* Properties of the session state machine *)

AuthRequired == newSMTPError(530, <<5, 7, 0>>, <<"authentication required">>)

\* The envelope a Data call needs: authenticated, a sender, a recipient.
EnvelopeReady(pre) == pre.auth /\ pre.sender # NilAddr /\ pre.recipients # <<>>

\* C1: handler.message is invoked by Data only, and only by a Data call that
\* found the session authenticated with a sender and at least one recipient;
\* a Data call that found anything else returns an error, hands no message
\* to the handler and posts nothing.
C1_RelayOnlyWithEnvelope ==
    /\ last.op # "Data" => last.relayed = <<>> /\ last.posts = <<>>
    /\ last.op = "Data" =>
        /\ last.relayed # <<>> => EnvelopeReady(last.pre)
        /\ ~EnvelopeReady(last.pre) =>
            last.err # NoErr /\ last.relayed = <<>> /\ last.posts = <<>>

\* A Data call on a ready envelope handed one message to the handler and
\* returned nil.
C1_Witness ==
    /\ last.op = "Data"
    /\ EnvelopeReady(last.pre)
    /\ Len(last.relayed) = 1
    /\ last.err = NoErr

\* C2: on a session that is not authenticated, Mail, Rcpt and Data return
\* 530 "authentication required" for any argument and leave auth, sender and
\* recipients as they were.
C2_UnauthenticatedRejected ==
    (last.op \in {"Mail", "Rcpt", "Data"} /\ ~last.pre.auth) =>
        /\ last.err = AuthRequired
        /\ Pre(last.sess) = last.pre
        /\ last.relayed = <<>>

\* Mail was called with a well-formed address on an unauthenticated session.
C2_Witness ==
    /\ last.op = "Mail"
    /\ ~last.pre.auth
    /\ ParseAddress(last.arg).ok
    /\ last.err = AuthRequired
    /\ sender[last.sess] = NilAddr

\* The PLAIN response names the configured username and password.
Matches(response) ==
    Len(response) = 3 /\ response[2] = SenderEmail /\ response[3] = SenderPassword

\* C3: a PLAIN response whose username and password both equal the
\* configured identity sets auth; a response with a wrong username or a
\* wrong password returns "invalid username or password" and does not change
\* auth, so a session that was not authenticated is still not authenticated.
C3_AuthOutcome ==
    last.op = "Auth" =>
        LET response == last.arg.response
        IN  /\ Matches(response) => last.err = NoErr /\ auth[last.sess]
            /\ (Len(response) = 3 /\ ~Matches(response)) =>
                /\ last.err = PlainErr(<<"invalid username or password">>)
                /\ auth[last.sess] = last.pre.auth
                /\ ~last.pre.auth => ~auth[last.sess]

\* The right username with a wrong password was refused on a session that
\* was not authenticated.
C3_Witness ==
    /\ last.op = "Auth"
    /\ Len(last.arg.response) = 3
    /\ last.arg.response[2] = SenderEmail
    /\ last.arg.response[3] # SenderPassword
    /\ last.err # NoErr
    /\ ~auth[last.sess]

BadSequence(err) == err.code = 503 /\ err.enh = <<5, 5, 1>>

\* C4 as claimed: in every session a Rcpt call that finds no sender returns
\* 503 and appends nothing.
C4_Original ==
    (last.op = "Rcpt" /\ last.pre.sender = NilAddr) =>
        /\ BadSequence(last.err)
        /\ recipients[last.sess] = last.pre.recipients

\* C4 as amended: a Rcpt call that finds no sender appends nothing; on an
\* authenticated session it returns 503, on a session that is not
\* authenticated 530.
C4_RcptBeforeMail ==
    (last.op = "Rcpt" /\ last.pre.sender = NilAddr) =>
        /\ recipients[last.sess] = last.pre.recipients
        /\ last.pre.auth => BadSequence(last.err)
        /\ ~last.pre.auth => last.err = AuthRequired

\* Rcpt was called with a well-formed address on an authenticated session
\* that holds no sender.
C4_Witness ==
    /\ last.op = "Rcpt"
    /\ last.pre.auth
    /\ last.pre.sender = NilAddr
    /\ ParseAddress(last.arg).ok
    /\ BadSequence(last.err)
    /\ recipients[last.sess] = <<>>

\* C5: a Mail call that finds a sender already stored returns 503 and leaves
\* the stored sender and the recipient list as they were, whether or not
\* recipients were added in between.
C5_SecondMailRejected ==
    (last.op = "Mail" /\ last.pre.sender # NilAddr) =>
        /\ BadSequence(last.err)
        /\ sender[last.sess] = last.pre.sender
        /\ recipients[last.sess] = last.pre.recipients

\* A second Mail naming another well-formed address was called before any
\* recipient was added.
C5_Witness ==
    /\ last.op = "Mail"
    /\ last.pre.sender # NilAddr
    /\ last.pre.recipients = <<>>
    /\ ParseAddress(last.arg).ok
    /\ ParseAddress(last.arg).addr # last.pre.sender
    /\ sender[last.sess] = last.pre.sender

-----------------------------------------------------------------------------
(* Properties of the reconciliation *)

\* The addresses one header line lists, none when the line does not parse.
LineAddrs(str) ==
    LET l == ParseAddressList(str)
    IN  {l.addrs[i].Address : i \in 1..Len(l.addrs)}

\* The addresses the lines of one key list.
HeaderAddrs(vals) == UNION {LineAddrs(vals[i]) : i \in 1..Len(vals)}

\* Address a is listed by a To, Cc or Bcc line of h.
PresentInHeaders(h, a) ==
    a \in HeaderAddrs(h.To) \cup HeaderAddrs(h.Cc) \cup HeaderAddrs(h.Bcc)

\* How often the lines of one key write address a.
Written(vals, a) ==
    Cardinality(UNION {{<<i, j>> : j \in {k \in 1..Len(vals[i]) : vals[i][k].addr = a}} :
                           i \in 1..Len(vals)})

\* A Data call that reached the handler.
Relayed == last.op = "Data" /\ Len(last.parsed) = 1 /\ Len(last.relayed) = 1

\* C6 as claimed: in the message handed to the handler, every envelope
\* recipient that no To, Cc or Bcc line of the submitted message listed is
\* written in Bcc, and no envelope recipient that one of those lines listed
\* has been added to Bcc.
C6_Original ==
    Relayed =>
        LET m == last.parsed[1].header
            out == last.relayed[1].header
        IN  \A i \in 1..Len(last.pre.recipients) :
                LET a == last.pre.recipients[i].Address
                IN  /\ ~PresentInHeaders(m, a) => Written(out.Bcc, a) > 0
                    /\ PresentInHeaders(m, a) =>
                        Written(out.Bcc, a) <= Written(m.Bcc, a)

\* What the code does keep: C6 with "listed" read as listed by the first
\* line of To, of Cc or of Bcc, the only lines AddressList looks at.
C6_FirstLinesOnly ==
    Relayed =>
        LET m == last.parsed[1].header
            out == last.relayed[1].header
            first == LineAddrs(Get(m.To)) \cup LineAddrs(Get(m.Cc))
                        \cup LineAddrs(Get(m.Bcc))
        IN  \A i \in 1..Len(last.pre.recipients) :
                LET a == last.pre.recipients[i].Address
                IN  /\ a \notin first => Written(out.Bcc, a) > 0
                    /\ a \in first => Written(out.Bcc, a) <= Written(m.Bcc, a)

\* The first From line parses and lists address a.
FromNames(vals, a) ==
    /\ vals # <<>>
    /\ vals[1] # <<>>
    /\ \A j \in 1..Len(vals[1]) : vals[1][j].form # "junk"
    /\ \E j \in 1..Len(vals[1]) : vals[1][j].addr = a

\* C7: in every message handed to the handler, From lists the envelope
\* sender's address: a From that already parsed to a list with the sender is
\* as submitted, any other From (missing, not parsing, naming others only)
\* is the sender's address string and nothing else.
C7_FromNamesSender ==
    Relayed =>
        LET m == last.parsed[1].header
            out == last.relayed[1].header
            snd == last.pre.sender
        IN  /\ FromNames(out.From, snd.Address)
            /\ FromNames(m.From, snd.Address) => out.From = m.From
            /\ ~FromNames(m.From, snd.Address) => out.From = <<AddrString(snd)>>

\* A submitted From naming only another address was replaced by the
\* sender's address string.
C7_Witness ==
    /\ Relayed
    /\ last.parsed[1].header.From = << <<Bare(O)>> >>
    /\ last.relayed[1].header.From = <<AddrString(last.pre.sender)>>
    /\ last.pre.sender = Addr("", SenderEmail)

-----------------------------------------------------------------------------
(* Properties of the token cache *)

\* The getCachedToken calls the last returned call made.
Gets == {last.get[i] : i \in 1..Len(last.get)}

\* C8: a getCachedToken call that finds a token with now < tokenExp - 60
\* returns that token without calling the token source and leaves the cache
\* as it was; a call that finds a token with now > tokenExp - 60 calls the
\* token source (once: the call is made at one place, not in a loop) and,
\* when it answers, stores the new token and expiry and returns the new
\* token.
C8_CachedWhileValid ==
    \A g \in Gets :
        /\ (g.token0 # "" /\ g.t < g.exp0 - RefreshMargin) =>
            /\ ~g.called
            /\ g.ret = g.token0 /\ g.err = NoErr
            /\ g.token = g.token0 /\ g.tokenExp = g.exp0
        /\ (g.token0 # "" /\ g.t > g.exp0 - RefreshMargin) =>
            /\ g.called
            /\ g.src.ok =>
                /\ g.ret = g.src.token /\ g.err = NoErr
                /\ g.token = g.src.token /\ g.tokenExp = g.src.exp

\* One session was served from the cache while the token was valid, and
\* later another session's call found the token past expiry minus 60s and
\* replaced it by a different one.
C8_Witness ==
    /\ last.op = "getCachedToken"
    /\ \E g \in Gets :
        /\ g.token0 # "" /\ g.t > g.exp0 - RefreshMargin
        /\ g.called /\ g.src.ok /\ g.src.token # g.token0
        /\ token = g.src.token /\ tokenExp = g.src.exp
    /\ \E s \in Sessions :
        /\ s # last.sess
        /\ Len(got[s]) = 1
        /\ ~got[s][1].called
        /\ got[s][1].t < got[s][1].exp0 - RefreshMargin

\* C9 as claimed: the cached token is returned without a call of the token
\* source only when now < tokenExp - 60; from now = tokenExp - 60 on the
\* token source is called first.
C9_Original ==
    \A g \in Gets :
        /\ ~g.called => g.t < g.exp0 - RefreshMargin
        /\ g.t >= g.exp0 - RefreshMargin => g.called

\* C9 as amended: the cached token is returned without a call of the token
\* source exactly when it is not empty and now <= tokenExp - 60; the token
\* source is called first exactly when the token is empty or
\* now > tokenExp - 60. At now = tokenExp - 60 the cached token is returned.
C9_RefreshBoundary ==
    \A g \in Gets :
        /\ ~g.called <=> (g.token0 # "" /\ g.t <= g.exp0 - RefreshMargin)
        /\ ~g.called => g.ret = g.token0 /\ g.err = NoErr
        /\ g.t > g.exp0 - RefreshMargin => g.called

\* A call made exactly at expiry minus 60s was served from the cache.
C9_Witness ==
    \E g \in Gets :
        /\ g.token0 # ""
        /\ g.t = g.exp0 - RefreshMargin
        /\ ~g.called
        /\ g.ret = g.token0

\* The last call to return was a getCachedToken call whose token source
\* failed.
RefreshFailed ==
    /\ last.op = "Data"
    /\ Len(last.get) = 1
    /\ last.get[1].called
    /\ ~last.get[1].src.ok

\* C10: a getCachedToken call whose token source fails returns an error and
\* no token, and leaves token and tokenExp as it found them; so for as long
\* as no later call has refreshed the cache, the cache still asks for a
\* refresh, at that instant and at every later one: the next call, whenever
\* it comes, calls the token source again.
C10_FailedRefreshKeepsCache ==
    /\ \A g \in Gets :
        (g.called /\ ~g.src.ok) =>
            /\ g.err # NoErr /\ g.ret = ""
            /\ g.token = g.token0 /\ g.tokenExp = g.exp0
    /\ RefreshFailed =>
        /\ last.err.code = 554
        /\ last.posts = <<>>
        /\ token = last.get[1].token0
        /\ tokenExp = last.get[1].exp0
        /\ now >= last.get[1].t
        /\ \A t \in now..MaxNow + 1 :
            token = "" \/ t > tokenExp - RefreshMargin

\* The token source failed on a call that found a stale token in the cache,
\* and the stale token and its expiry are still there.
C10_Witness ==
    /\ RefreshFailed
    /\ last.get[1].token0 # ""
    /\ token = last.get[1].token0
    /\ tokenExp = last.get[1].exp0

-----------------------------------------------------------------------------
(* C11: the send succeeds only on status 202 *)

\* The answer the HTTP client gave to the POST of the last Data call.
Answer == last.answers[1]

Accepted(http) == http.kind = "status" /\ http.status = 202

\* C11: whenever a POST was issued, the send (and so the handler and Data)
\* succeeded if and only if the answer had status 202; a transport failure
\* and every other status gave an error, and the error for another status
\* carries that status and the response body.
C11_SendSucceedsOnlyOn202 ==
    (last.op = "Data" /\ Len(last.answers) = 1) =>
        /\ Len(last.posts) = 1
        /\ Len(last.herr) = 1
        /\ (last.herr[1] = NoErr) <=> Accepted(Answer)
        /\ (last.err = NoErr) <=> Accepted(Answer)
        /\ (Answer.kind = "status" /\ Answer.status # 202) =>
               /\ last.herr[1].msg = <<"sendRawMimeMail", "sendMail failed",
                                       Answer.status, Answer.body>>
               /\ last.err.msg = last.herr[1].msg

\* A Data call whose POST was answered 200 with a body, and failed with it.
C11_Witness ==
    ~(/\ last.op = "Data"
      /\ Len(last.answers) = 1
      /\ Answer.kind = "status"
      /\ Answer.status = 200
      /\ Answer.body = "ok"
      /\ last.err # NoErr)

-----------------------------------------------------------------------------
(* C12: one relay call per Data, and its outcome is Data's outcome *)

\* C12: a Data call whose preconditions hold and whose bytes could be read
\* calls the handler exactly once, with one message in which every envelope
\* recipient's address is written in a To, Cc or Bcc line, and issues at
\* most one POST; it returns nil exactly
\* when the handler returned nil, and otherwise a 554 (5.3.0) whose text is
\* the handler's error text.
C12_RelayOnceOutcomeReported ==
    (last.op = "Data" /\ EnvelopeReady(last.pre) /\ last.arg.kind # "readerr") =>
        /\ Len(last.relayed) = 1
        /\ Len(last.herr) = 1
        /\ Len(last.get) = 1
        /\ Len(last.posts) <= 1
        /\ \A i \in 1..Len(last.pre.recipients) :
               LET h == last.relayed[1].header
                   a == last.pre.recipients[i].Address
               IN  Written(h.To, a) + Written(h.Cc, a) + Written(h.Bcc, a) > 0
        /\ (last.err = NoErr) <=> (last.herr[1] = NoErr)
        /\ (last.herr[1] # NoErr) =>
               /\ last.err.code = 554
               /\ last.err.enh = <<5, 3, 0>>
               /\ last.err.msg = last.herr[1].msg

\* A Data call with a ready envelope whose one relay call failed, reported
\* as 554.
C12_Witness ==
    ~(/\ last.op = "Data"
      /\ EnvelopeReady(last.pre)
      /\ Len(last.relayed) = 1
      /\ last.herr # <<>>
      /\ last.herr[1] # NoErr
      /\ last.err.code = 554)

-----------------------------------------------------------------------------
(* C13: the envelope after a successful Data *)

\* A Data call that returned nil.
Submitted == last.op = "Data" /\ last.err = NoErr

\* C13 as claimed: after a Data call that returned nil the session has no
\* sender and no recipients.
C13_Original ==
    Submitted =>
        /\ auth[last.sess]
        /\ sender[last.sess] = NilAddr
        /\ recipients[last.sess] = <<>>

\* C13: after a Data call that returned nil the session is still
\* authenticated and still holds the sender and the recipients it was called
\* with, so that Mail called next, whatever its argument, returns 503.
C13_DataKeepsEnvelope ==
    Submitted =>
        /\ auth[last.sess]
        /\ sender[last.sess] = last.pre.sender
        /\ sender[last.sess] # NilAddr
        /\ recipients[last.sess] = last.pre.recipients
        /\ recipients[last.sess] # <<>>
        /\ \A from \in MailArgs :
               BadSequence(MailErr(auth[last.sess], sender[last.sess],
                                   recipients[last.sess], from))

\* A Data call that returned nil and left two recipients in the session.
C13_Witness ==
    ~(/\ Submitted
      /\ sender[last.sess] # NilAddr
      /\ Len(recipients[last.sess]) = 2)

-----------------------------------------------------------------------------
(* C14: Reset *)

\* C14: Reset leaves the session without sender and without recipients and
\* with the auth flag it found; and Mail called on an authenticated session
\* in that state with an address returns nil and stores the address.
C14_ResetClearsEnvelope ==
    /\ (last.op = "Reset") =>
           /\ last.err = NoErr
           /\ sender[last.sess] = NilAddr
           /\ recipients[last.sess] = <<>>
           /\ auth[last.sess] = last.pre.auth
    /\ (/\ last.op = "Mail"
        /\ last.pre = [auth |-> TRUE, sender |-> NilAddr, recipients |-> <<>>]
        /\ Len(last.arg) = 1
        /\ last.arg[1].form # "junk") =>
           /\ last.err = NoErr
           /\ sender[last.sess].Address = last.arg[1].addr

\* A Reset of an authenticated session that held a sender and recipients.
C14_Witness ==
    ~(/\ last.op = "Reset"
      /\ last.pre.auth
      /\ last.pre.sender # NilAddr
      /\ last.pre.recipients # <<>>
      /\ auth[last.sess]
      /\ sender[last.sess] = NilAddr
      /\ recipients[last.sess] = <<>>)

-----------------------------------------------------------------------------
(* C15: authentication is sticky *)

\* C15: no call on a session that was authenticated when the call was made
\* leaves it unauthenticated, whatever the call and whatever it returned.
C15_AuthSticky ==
    (last.sess \in Sessions /\ last.pre.auth) => auth[last.sess]

\* A failed Auth attempt on an authenticated session, which stayed
\* authenticated.
C15_Witness ==
    ~(/\ last.op = "Auth"
      /\ last.pre.auth
      /\ last.err # NoErr
      /\ auth[last.sess])

-----------------------------------------------------------------------------
(* C16: the mechanism named in Auth *)

\* C16 as claimed: an Auth call naming a mechanism other than PLAIN fails
\* and does not authenticate the session.
C16_Original ==
    (last.op = "Auth" /\ last.arg.mech # "PLAIN") =>
        /\ last.err # NoErr
        /\ auth[last.sess] = last.pre.auth

-----------------------------------------------------------------------------
(* C17: the fallback message *)

\* The written form of address a in the fallback headers.
FallbackItem(a) ==
    [form |-> IF a.Name = "" THEN "angle" ELSE "named", addr |-> a.Address]

\* C17: a Data call with a ready envelope on bytes that do not parse reads a
\* message with one From line holding the sender, one To line holding the
\* envelope recipients in envelope order, Subject "(no subject)",
\* Content-Type "text/plain; charset=utf-8", no Cc, no Bcc and the bytes as
\* body; that message is handed to the handler as it is; and no Data call
\* returns 550.
C17_FallbackMessage ==
    /\ (last.op = "Data" /\ EnvelopeReady(last.pre) /\ last.arg.kind = "raw") =>
           /\ Len(last.parsed) = 1
           /\ LET m == last.parsed[1]
                   rs == last.pre.recipients
               IN  /\ m.header.From = << <<FallbackItem(last.pre.sender)>> >>
                   /\ m.header.To = << [i \in 1..Len(rs) |-> FallbackItem(rs[i])] >>
                   /\ m.header.Cc = <<>>
                   /\ m.header.Bcc = <<>>
                   /\ m.header.Subject = <<"(no subject)">>
                   /\ m.header.ContentType = <<"text/plain; charset=utf-8">>
                   /\ m.body = last.arg.bytes
           /\ last.relayed = last.parsed
           /\ Len(last.herr) = 1
    /\ (last.op = "Data") => last.err.code # 550

\* Unparsable bytes sent for two recipients, relayed and accepted.
C17_Witness ==
    ~(/\ last.op = "Data"
      /\ last.arg.kind = "raw"
      /\ Len(last.pre.recipients) = 2
      /\ last.pre.recipients[1] # last.pre.recipients[2]
      /\ Len(last.relayed) = 1
      /\ last.relayed[1].body = "hello"
      /\ last.err = NoErr)

-----------------------------------------------------------------------------
(* C18: the recipient list *)

\* C18: a Rcpt call that returns nil appends the address it was called with
\* to the end of the list, also when the list holds it already; a Rcpt call
\* that returns an error, as one with a malformed address does, leaves the
\* list alone; and Auth, Mail, Data and Logout leave it alone.
C18_RecipientsInOrder ==
    /\ (last.op = "Rcpt" /\ last.err = NoErr) =>
           /\ Len(last.arg) = 1
           /\ last.arg[1].form # "junk"
           /\ recipients[last.sess] =
                  last.pre.recipients \o
                  <<Addr(IF last.arg[1].form = "named" THEN "N" ELSE "",
                         last.arg[1].addr)>>
    /\ (last.op = "Rcpt" /\ last.err # NoErr) =>
           recipients[last.sess] = last.pre.recipients
    /\ (last.op = "Rcpt" /\ (Len(last.arg) # 1 \/ last.arg = <<Junk>>)) =>
           last.err # NoErr
    /\ (last.op \in {"Auth", "Mail", "Data", "Logout"}) =>
           recipients[last.sess] = last.pre.recipients

\* A successful Rcpt call with the address the list already held.
C18_Witness ==
    ~(/\ last.op = "Rcpt"
      /\ last.err = NoErr
      /\ Len(last.pre.recipients) = 1
      /\ Len(recipients[last.sess]) = 2
      /\ recipients[last.sess][1] = recipients[last.sess][2])

-----------------------------------------------------------------------------
(* C19: what the session fields imply *)

\* C19: in every state, a session with recipients has a sender and is
\* authenticated, and a session with a sender is authenticated.
C19_EnvelopeImpliesAuth ==
    \A s \in Sessions :
        /\ (recipients[s] # <<>>) => (sender[s] # NilAddr /\ auth[s])
        /\ (sender[s] # NilAddr) => auth[s]

\* An authenticated session with a sender and two recipients.
C19_Witness ==
    ~(\E s \in Sessions :
        /\ auth[s]
        /\ sender[s] # NilAddr
        /\ Len(recipients[s]) = 2)

-----------------------------------------------------------------------------
(* C20: sessions are isolated from each other *)

\* What session s holds: its fields and the position and locals of its
\* Data call.
Own(s) == <<auth[s], sender[s], recipients[s], pc[s], inData[s], tnow[s], got[s]>>

\* C20: no step changes what two different sessions hold; a step that
\* changes the auth flag, the sender or the recipients of a session is the
\* return of an Auth, Mail, Rcpt or Reset call on that session; and no step
\* of any session moves the clock: what a step changes outside the session
\* that takes it is the cached token and its expiry, and the lock around
\* them.
C20_SessionsIsolated ==
    [][/\ \A s \in Sessions : \A u \in Sessions \ {s} :
              (Own(s)' # Own(s)) => (Own(u)' = Own(u))
       /\ \A s \in Sessions :
              (<<auth[s], sender[s], recipients[s]>>'
                  # <<auth[s], sender[s], recipients[s]>>) =>
                  /\ last'.sess = s
                  /\ last'.op \in {"Auth", "Mail", "Rcpt", "Reset"}
                  /\ last'.pre = Pre(s)
                  /\ pc[s] = "idle"
                  /\ UNCHANGED <<token, tokenExp, tokenMutex>>
       /\ now' = now]_vars

\* Session 2's Data call returned with the token session 1's call had
\* fetched, while session 1's call was still waiting for the answer to its
\* POST; each session held its own envelope.
C20_Witness ==
    ~(/\ last.op = "Data"
      /\ last.sess = 2
      /\ last.err = NoErr
      /\ ~last.get[1].called
      /\ pc[1] = "send"
      /\ got[1][1].called
      /\ got[1][1].token = last.get[1].ret
      /\ sender[1] = Addr("", SenderEmail)
      /\ sender[2] = Addr("", A)
      /\ recipients[1] # recipients[2])

-----------------------------------------------------------------------------
(* C21: what the reconciliation leaves alone *)

\* C21 as claimed: the message handed to the handler has the To, Cc, Subject
\* and Content-Type lines and the body of the message read; and when every
\* envelope recipient is listed by a To, Cc or Bcc line of the message read
\* and its From lists the sender, the message handed over is the message
\* read.
C21_Original ==
    Relayed =>
        LET m == last.parsed[1]
            out == last.relayed[1]
        IN  /\ out.header.To = m.header.To
            /\ out.header.Cc = m.header.Cc
            /\ out.header.Subject = m.header.Subject
            /\ out.header.ContentType = m.header.ContentType
            /\ out.body = m.body
            /\ (/\ \A i \in 1..Len(last.pre.recipients) :
                      PresentInHeaders(m.header, last.pre.recipients[i].Address)
                /\ FromNames(m.header.From, last.pre.sender.Address)) =>
                   out = m

\* What the code does keep: the lines other than From and Bcc and the body
\* always, and the whole message when the first lines of To, Cc and Bcc list
\* every envelope recipient and the first From line lists the sender.
C21_FirstLinesOnly ==
    Relayed =>
        LET m == last.parsed[1]
            out == last.relayed[1]
            first == LineAddrs(Get(m.header.To)) \cup LineAddrs(Get(m.header.Cc))
                        \cup LineAddrs(Get(m.header.Bcc))
        IN  /\ out.header.To = m.header.To
            /\ out.header.Cc = m.header.Cc
            /\ out.header.Subject = m.header.Subject
            /\ out.header.ContentType = m.header.ContentType
            /\ out.body = m.body
            /\ (/\ \A i \in 1..Len(last.pre.recipients) :
                      last.pre.recipients[i].Address \in first
                /\ FromNames(m.header.From, last.pre.sender.Address)) =>
                   out = m

-----------------------------------------------------------------------------
(* C22: the token is obtained before the POST *)

\* C22: a Data call issued a POST only after its getCachedToken call had
\* returned a token without error, and the POST carries that token, the
\* configured user and the encoded message; a Data call whose
\* getCachedToken call failed issued no POST and returned that failure; and
\* a handler that is about to POST holds the token of a call that succeeded.
C22_TokenBeforePost ==
    /\ (last.op = "Data" /\ last.posts # <<>>) =>
           /\ Len(last.posts) = 1
           /\ Len(last.get) = 1
           /\ last.get[1].err = NoErr
           /\ last.posts[1].authorization = <<"Bearer ", last.get[1].ret>>
           /\ last.posts[1].url[2] = SenderEmail
           /\ last.posts[1].body.base64 = encodeMailMessage(last.relayed[1])
    /\ (last.op = "Data" /\ last.get # <<>> /\ last.get[1].err # NoErr) =>
           /\ last.posts = <<>>
           /\ last.answers = <<>>
           /\ last.herr = <<Wrap("getCachedToken", last.get[1].err)>>
           /\ last.err.code = 554
    /\ \A s \in Sessions :
           (pc[s] = "send") => (got[s] # <<>> /\ got[s][1].err = NoErr)

\* A Data call whose token source failed: no POST, and the failure came
\* back.
C22_Witness ==
    ~(/\ last.op = "Data"
      /\ EnvelopeReady(last.pre)
      /\ last.get # <<>>
      /\ last.get[1].called
      /\ last.get[1].err # NoErr
      /\ last.posts = <<>>
      /\ last.err.code = 554)

-----------------------------------------------------------------------------
(* C23: refresh is serialized *)

\* The sessions inside the locked part of getCachedToken, and those whose
\* call to the token source is in flight.
InCritical == {s \in Sessions : pc[s] \in {"locked", "source"}}
InFlight == {s \in Sessions : pc[s] = "source"}

\* C23: at most one call to the token source is in flight, a session is
\* between Lock and Unlock only while it holds the lock, and a step changes
\* the cached token or its expiry only when taken by the session that holds
\* the lock and whose token source call returns.
C23_RefreshSerialized ==
    /\ [](/\ Cardinality(InFlight) <= 1
          /\ Cardinality(InCritical) <= 1
          /\ \A s \in InCritical : tokenMutex = s)
    /\ [][(token' # token \/ tokenExp' # tokenExp) =>
              /\ tokenMutex \in Sessions
              /\ pc[tokenMutex] = "source"
              /\ pc'[tokenMutex] # "source"
              /\ tokenMutex' = 0]_vars

\* One session's token source call is in flight while the other waits for
\* the lock.
C23_Witness ==
    ~(/\ pc[1] = "source"
      /\ tokenMutex = 1
      /\ pc[2] = "lock")

-----------------------------------------------------------------------------
(* C27: callers that meet at an empty cache *)

\* Session s made the call that filled the empty cache: its getCachedToken
\* call found no token, called the token source and was answered.
Filled(s) ==
    /\ got[s] # <<>>
    /\ got[s][1].token0 = ""
    /\ got[s][1].called
    /\ got[s][1].src.ok

\* The token session s stored was valid at time t.
ValidAt(s, t) == t < got[s][1].tokenExp - RefreshMargin

\* C27: when session s filled the empty cache with a token that was valid
\* when s and when another session u read the clock, and no token source
\* call of u failed, then u's getCachedToken call did not call the token
\* source and returned the token s's call returned: the source was called
\* once for both.
C27_OneSourceCall ==
    \A s \in Sessions : \A u \in Sessions \ {s} :
        (/\ Filled(s)
         /\ got[u] # <<>>
         /\ got[u][1].called => got[u][1].src.ok
         /\ ValidAt(s, got[s][1].t)
         /\ ValidAt(s, got[u][1].t)) =>
            /\ ~got[u][1].called
            /\ got[u][1].err = NoErr
            /\ got[u][1].ret = got[s][1].ret
            /\ Cardinality({v \in Sessions : got[v] # <<>> /\ got[v][1].called}) = 1

\* Session 1 filled the empty cache while session 2 waited for the lock, and
\* session 2 then returned the same token without calling the source.
C27_Witness ==
    ~(/\ Filled(1)
      /\ ValidAt(1, got[1][1].t)
      /\ got[2] # <<>>
      /\ ~got[2][1].called
      /\ got[2][1].ret = got[1][1].ret
      /\ got[2][1].token0 = got[1][1].token)

-----------------------------------------------------------------------------
(* C29: getCachedToken returns and leaves the lock free *)

\* Token runs in which the runtime hands the mutex to every waiter in the
\* end (sync.Mutex leaves no waiter starving), a goroutine that holds the
\* lock goes on, and every call to the token source returns.
Fairness ==
    \A s \in Sessions :
        /\ SF_vars(Lock(s))
        /\ WF_vars(ReadCache(s))
        /\ WF_vars(GetTokenReturn(s, SrcOutcomes(now)))

\* The clock of the fair token runs stops earlier: one tick is what lets a
\* cached token expire between two calls.
FairMaxNow == 1

TickEarly == now < FairMaxNow /\ Tick

NextTokenFair ==
    \/ \E s \in Sessions : DataChecked(s)
    \/ \E s \in Sessions : MessageCall(s, {StepArg})
    \/ \E s \in Sessions : Lock(s)
    \/ \E s \in Sessions : ReadCache(s)
    \/ \E s \in Sessions : GetTokenReturn(s, SrcOutcomes(now))
    \/ \E s \in Sessions : SendMail(s, HttpOutcomes)
    \/ TickEarly

SpecTokenFair == InitToken /\ [][NextTokenFair]_vars /\ Fairness

\* Session s is inside getCachedToken.
InGetCachedToken(s) == pc[s] \in {"lock", "locked", "source"}

\* C29: the lock is held only by a session that is between Lock and the
\* return of getCachedToken, so every return, with a token or with the
\* token source's failure, leaves it free; and every session that called
\* getCachedToken gets out of it.
C29_LockReleasedAndCallsReturn ==
    /\ [](\A s \in Sessions :
             /\ (tokenMutex = s) => pc[s] \in {"locked", "source"}
             /\ tokenMutex \in Sessions \cup {0})
    /\ \A s \in Sessions : InGetCachedToken(s) ~> ~InGetCachedToken(s)

\* Session 1's refresh failed and released the lock, and session 2, which
\* had been waiting, took it.
C29_Witness ==
    ~(/\ last.op = "Data"
      /\ last.sess = 1
      /\ last.get # <<>>
      /\ last.get[1].err # NoErr
      /\ got[1] # <<>>
      /\ got[1][1].err # NoErr
      /\ pc[1] = "idle"
      /\ tokenMutex = 2
      /\ pc[2] = "locked")

-----------------------------------------------------------------------------
(* C24, C25, C26: the Bcc patch *)

\* The envelope recipients, in envelope order, that no To, Cc or Bcc line of
\* h lists: the missing recipients of the claims.
AbsentRecipients(h, rcpts) ==
    SelectSeq(rcpts, LAMBDA r : ~PresentInHeaders(h, r.Address))

\* The addresses the first To, Cc and Bcc lines of h list, and the envelope
\* recipients, in envelope order, whose address is not among them: the
\* recipients the code takes as missing, which include those listed by a
\* later line only.
FirstLineAddrs(h) ==
    LineAddrs(Get(h.To)) \cup LineAddrs(Get(h.Cc)) \cup LineAddrs(Get(h.Bcc))

FirstLineMissing(h, rcpts) ==
    SelectSeq(rcpts, LAMBDA r : r.Address \notin FirstLineAddrs(h))

\* C24 as claimed: when no envelope recipient is missing from the To, Cc and
\* Bcc lines of the message read, Bcc is as submitted; otherwise what
\* follows the old first Bcc line in the new Bcc is the missing recipients,
\* one item each, in envelope order, an address that is missing twice
\* written twice, and nothing else.
C24_Original ==
    Relayed =>
        LET m == last.parsed[1].header
            out == last.relayed[1].header
            miss == AbsentRecipients(m, last.pre.recipients)
            old == Get(m.Bcc)
        IN  IF miss = <<>>
            THEN out.Bcc = m.Bcc
            ELSE /\ Len(out.Bcc) = 1
                 /\ Len(out.Bcc[1]) = Len(old) + Len(miss)
                 /\ \A i \in 1..Len(miss) :
                        out.Bcc[1][Len(old) + i] = FallbackItem(miss[i])

\* What the code does keep: C24 with "missing" read as listed by none of
\* the first lines of To, of Cc and of Bcc, the only lines AddressList looks
\* at. A recipient listed by a later line only is added as well.
C24_FirstLinesOnly ==
    Relayed =>
        LET m == last.parsed[1].header
            out == last.relayed[1].header
            miss == FirstLineMissing(m, last.pre.recipients)
            old == Get(m.Bcc)
        IN  IF miss = <<>>
            THEN out.Bcc = m.Bcc
            ELSE /\ Len(out.Bcc) = 1
                 /\ Len(out.Bcc[1]) = Len(old) + Len(miss)
                 /\ \A i \in 1..Len(miss) :
                        out.Bcc[1][Len(old) + i] = FallbackItem(miss[i])

\* How often the lines of one key hold item tok.
Items(vals, tok) ==
    Cardinality(UNION {{<<i, j>> : j \in {k \in 1..Len(vals[i]) : vals[i][k] = tok}} :
                           i \in 1..Len(vals)})

\* C25 as claimed: when the message read has Bcc lines and recipients are
\* missing, every item of every Bcc line is still in Bcc afterwards; and
\* when it has none, the new Bcc holds the missing recipients and nothing
\* else.
C25_Original ==
    Relayed =>
        LET m == last.parsed[1].header
            out == last.relayed[1].header
            miss == FirstLineMissing(m, last.pre.recipients)
        IN  /\ (m.Bcc # <<>> /\ miss # <<>>) =>
                   \A i \in 1..Len(m.Bcc) : \A k \in 1..Len(m.Bcc[i]) :
                       Items(out.Bcc, m.Bcc[i][k]) >= Items(m.Bcc, m.Bcc[i][k])
            /\ (m.Bcc = <<>> /\ miss # <<>>) =>
                   out.Bcc = << [i \in 1..Len(miss) |-> FallbackItem(miss[i])] >>

\* What the code does keep: the first Bcc line, to which the missing
\* recipients are appended; the new Bcc has that one line.
C25_FirstLineKept ==
    Relayed =>
        LET m == last.parsed[1].header
            out == last.relayed[1].header
            miss == FirstLineMissing(m, last.pre.recipients)
        IN  (miss # <<>>) =>
               out.Bcc = << Get(m.Bcc) \o [i \in 1..Len(miss) |-> FallbackItem(miss[i])] >>

\* C26 as claimed: reconciling the message handed to the handler once more,
\* for the same envelope, gives that message.
C26_Original ==
    Relayed =>
        Reconcile(last.relayed[1], last.pre.sender, last.pre.recipients)
            = last.relayed[1]

\* The first Bcc line of h is there and does not parse as an address list.
BccUnparsable(h) == Get(h.Bcc) # <<>> /\ ~ParseAddressList(Get(h.Bcc)).ok

\* C26: reconciling the message handed to the handler once more, for the
\* same envelope, gives that message, unless the first Bcc line of the
\* message read did not parse and a recipient was missing; then the second
\* pass appends the missing recipients once more.
C26_IdempotentUnlessBccUnparsable ==
    Relayed =>
        LET m == last.parsed[1].header
            out == last.relayed[1]
            miss == FirstLineMissing(m, last.pre.recipients)
            again == Reconcile(out, last.pre.sender, last.pre.recipients)
        IN  IF BccUnparsable(m) /\ miss # <<>>
            THEN /\ again # out
                 /\ again.header.Bcc =
                        << out.header.Bcc[1] \o
                           [i \in 1..Len(miss) |-> FallbackItem(miss[i])] >>
            ELSE again = out

\* A message with an unparsable To line and a From naming another address,
\* patched in Bcc and From, which a second pass leaves alone.
C26_Witness ==
    ~(/\ Relayed
      /\ last.parsed[1].header.To = << <<Junk, Bare(A)>> >>
      /\ last.parsed[1].header.From = << <<Bare(O)>> >>
      /\ last.parsed[1].header.Bcc = <<>>
      /\ last.relayed[1].header.Bcc # <<>>
      /\ last.relayed[1] # last.parsed[1]
      /\ Reconcile(last.relayed[1], last.pre.sender, last.pre.recipients)
            = last.relayed[1])

-----------------------------------------------------------------------------
(* C28: a failed call changes nothing *)

\* C28: a call that returned an error left auth, sender and recipients of
\* its session as it found them; after a Data call that failed with 554 the
\* session still passes Data's three checks.
C28_ErrorLeavesSession ==
    (last.sess \in Sessions /\ last.err # NoErr) =>
        /\ Pre(last.sess) = last.pre
        /\ (last.op = "Data" /\ last.err.code = 554) =>
               /\ Len(last.relayed) = 1
               /\ EnvelopeReady(Pre(last.sess))
               /\ DataPreErr(auth[last.sess], sender[last.sess],
                             recipients[last.sess]) = NoErr

\* A Data call that failed with 554 and left sender and two recipients in
\* the session.
C28_Witness ==
    ~(/\ last.op = "Data"
      /\ last.err.code = 554
      /\ sender[last.sess] # NilAddr
      /\ Len(recipients[last.sess]) = 2
      /\ auth[last.sess])

====
